---- MODULE Spec2Model ----
(***************************************************************************)
(* smarttraffic-system: the in-memory violations store of app.py, its      *)
(* loader/normaliser (load_dataset), and the analytics aggregation.        *)
(*                                                                         *)
(* Text is modelled as a sequence of one-character strings so that strip,  *)
(* lower, substring search, float() and date parsing are computed, not     *)
(* assumed.  A cell value is a record [k, n, s]: k = "str" (text s),       *)
(* k = "num" (integer n), k = "nan" (pandas NaN, a missing cell) or        *)
(* k = "none" (Python None).                                               *)
(***************************************************************************)
EXTENDS Integers, Sequences, FiniteSets, TLC

VARIABLES fs, violations, last, threads, stable

vars == <<fs, violations, last, threads, stable>>

----------------------------------------------------------------------------
(* Values *)

Str(s) == [k |-> "str", n |-> 0, s |-> s]

Num(n) == [k |-> "num", n |-> n, s |-> <<>>]

NaN == [k |-> "nan", n |-> 0, s |-> <<>>]

NoneV == [k |-> "none", n |-> 0, s |-> <<>>]

(* pd.notna / pd.isna on a scalar: NaN and None are both "missing". *)
notna(v) == v.k \notin {"nan", "none"}

(* Python truthiness, as used by `x or default`. *)
Truthy(v) ==
  CASE v.k = "str" -> v.s # <<>>
    [] v.k = "num" -> v.n # 0
    [] v.k = "nan" -> TRUE
    [] OTHER -> FALSE

(* dict.get(key) and dict.get(key, default) *)
Get(d, key) == IF key \in DOMAIN d THEN d[key] ELSE NoneV

GetOr(d, key, dflt) == IF key \in DOMAIN d THEN d[key] ELSE dflt

----------------------------------------------------------------------------
(* Text *)

IsSpace(c) == c \in {" ", "\t", "\n"}

LowerOf ==
  [A |-> "a", B |-> "b", C |-> "c", D |-> "d", E |-> "e", F |-> "f", G |-> "g",
   H |-> "h", I |-> "i", J |-> "j", K |-> "k", L |-> "l", M |-> "m", N |-> "n",
   O |-> "o", P |-> "p", Q |-> "q", R |-> "r", S |-> "s", T |-> "t", U |-> "u",
   V |-> "v", W |-> "w", X |-> "x", Y |-> "y", Z |-> "z"]

LowerChar(c) == IF c \in DOMAIN LowerOf THEN LowerOf[c] ELSE c

(* str.lower() *)
lower(s) == [i \in 1..Len(s) |-> LowerChar(s[i])]

(* The first position from i on, and the last one up to i, that holds no blank *)
RECURSIVE FirstInk(_, _)
FirstInk(s, i) == IF i > Len(s) \/ ~IsSpace(s[i]) THEN i ELSE FirstInk(s, i + 1)

RECURSIVE LastInk(_, _)
LastInk(s, i) == IF i < 1 \/ ~IsSpace(s[i]) THEN i ELSE LastInk(s, i - 1)

(* str.strip() *)
strip(s) ==
  LET a == FirstInk(s, 1)
      b == LastInk(s, Len(s))
  IN IF a > b THEN <<>> ELSE IF a = 1 /\ b = Len(s) THEN s ELSE SubSeq(s, a, b)

(* `sub in s` for strings *)
Contains(sub, s) ==
  \E i \in 0..(Len(s) - Len(sub)) : SubSeq(s, i + 1, i + Len(sub)) = sub

DigitOf ==
  ("0" :> 0) @@ ("1" :> 1) @@ ("2" :> 2) @@ ("3" :> 3) @@ ("4" :> 4) @@ ("5" :> 5)
    @@ ("6" :> 6) @@ ("7" :> 7) @@ ("8" :> 8) @@ ("9" :> 9)

Digits == <<"0", "1", "2", "3", "4", "5", "6", "7", "8", "9">>

IsDigit(c) == c \in DOMAIN DigitOf

AllDigits(s) == s # <<>> /\ \A i \in 1..Len(s) : IsDigit(s[i])

(* The number a run of digits s[a..b] denotes *)
RECURSIVE DigitsVal(_, _, _)
DigitsVal(s, a, b) ==
  IF b < a THEN 0 ELSE DigitsVal(s, a, b - 1) * 10 + DigitOf[s[b]]

RECURSIVE NatStr(_)
NatStr(n) ==
  IF n < 10 THEN <<Digits[n + 1]>>
  ELSE NatStr(n \div 10) \o <<Digits[(n % 10) + 1]>>

(* str(v): text is itself, an integer is its decimal numeral. *)
PyStr(v) ==
  CASE v.k = "str" -> v.s
    [] v.k = "num" -> IF v.n < 0 THEN <<"-">> \o NatStr(0 - v.n) ELSE NatStr(v.n)
    [] v.k = "nan" -> <<"n", "a", "n">>
    [] OTHER -> <<"N", "o", "n", "e">>

(* float(v): [ok, n].  A number is itself; text is accepted when, after    *)
(* stripping, it is an optionally signed run of digits (the numerals the   *)
(* model's inputs contain; no fractions or exponents occur in them);       *)
(* any other text raises ValueError and None raises TypeError (ok = FALSE).*)
PyFloat(v) ==
  CASE v.k = "num" -> [ok |-> TRUE, n |-> v.n]
    [] v.k = "str" ->
         LET t == strip(v.s)
             neg == t # <<>> /\ Head(t) = "-"
             body == IF t # <<>> /\ Head(t) \in {"-", "+"} THEN Tail(t) ELSE t
         IN IF AllDigits(body)
            THEN [ok |-> TRUE,
                  n |-> IF neg THEN 0 - DigitsVal(body, 1, Len(body))
                        ELSE DigitsVal(body, 1, Len(body))]
            ELSE [ok |-> FALSE, n |-> 0]
    [] OTHER -> [ok |-> FALSE, n |-> 0]

----------------------------------------------------------------------------
(* Timestamps: pd.to_datetime on the ISO forms YYYY-MM-DD,                 *)
(* YYYY-MM-DD?HH:MM and YYYY-MM-DD?HH:MM:SS (? a blank or "T").  A parsed   *)
(* timestamp is its number of seconds since 2000-01-01 00:00:00.           *)

IsLeap(y) == (y % 4 = 0 /\ y % 100 # 0) \/ y % 400 = 0

DaysInMonth(y, m) ==
  IF m = 2 THEN (IF IsLeap(y) THEN 29 ELSE 28)
  ELSE IF m \in {4, 6, 9, 11} THEN 30 ELSE 31

(* Days from 2000-01-01 to y-m-d in the proleptic Gregorian calendar. *)
DayNumber(y, m, d) ==
  LET yy == IF m <= 2 THEN y - 1 ELSE y
      era == yy \div 400
      yoe == yy - era * 400
      mp == IF m > 2 THEN m - 3 ELSE m + 9
      doy == (153 * mp + 2) \div 5 + d - 1
      doe == yoe * 365 + yoe \div 4 - yoe \div 100 + doy
  IN era * 146097 + doe - 719468 - 10957

DigitsAt(s, a, b) == \A i \in a..b : IsDigit(s[i])

IsoDateOk(s) ==
  /\ Len(s) >= 10
  /\ DigitsAt(s, 1, 4) /\ s[5] = "-" /\ DigitsAt(s, 6, 7) /\ s[8] = "-" /\ DigitsAt(s, 9, 10)
  /\ DigitsVal(s, 6, 7) \in 1..12
  /\ DigitsVal(s, 9, 10) \in 1..DaysInMonth(DigitsVal(s, 1, 4), DigitsVal(s, 6, 7))

IsoTimeOk(s) ==
  \/ Len(s) = 10
  \/ /\ Len(s) \in {16, 19}
     /\ s[11] \in {" ", "T"}
     /\ DigitsAt(s, 12, 13) /\ s[14] = ":" /\ DigitsAt(s, 15, 16)
     /\ DigitsVal(s, 12, 13) \in 0..23
     /\ DigitsVal(s, 15, 16) \in 0..59
     /\ (Len(s) = 19 =>
           s[17] = ":" /\ DigitsAt(s, 18, 19) /\ DigitsVal(s, 18, 19) \in 0..59)

IsoSeconds(s) ==
  DayNumber(DigitsVal(s, 1, 4), DigitsVal(s, 6, 7), DigitsVal(s, 9, 10)) * 86400
  + (IF Len(s) >= 16 THEN DigitsVal(s, 12, 13) * 3600 + DigitsVal(s, 15, 16) * 60 ELSE 0)
  + (IF Len(s) = 19 THEN DigitsVal(s, 18, 19) ELSE 0)

NatStrings == {<<"N", "a", "T">>, <<"n", "a", "t">>, <<"N", "A", "T">>, <<"n", "a", "n">>, <<"N", "a", "N">>, <<"N", "A", "N">>}

(* pd.to_datetime(v): [k, t] with k = "ts" (a timestamp, t seconds),       *)
(* k = "nat" (NaT/None: the empty string, a NaT word, None or NaN) or      *)
(* k = "err" (the call raises ValueError).  An integer is taken as         *)
(* nanoseconds since 1970-01-01.                                           *)
to_datetime(v) ==
  CASE v.k = "str" ->
         IF v.s = <<>> \/ v.s \in NatStrings THEN [k |-> "nat", t |-> 0]
         ELSE IF IsoDateOk(v.s) /\ IsoTimeOk(v.s)
              THEN [k |-> "ts", t |-> IsoSeconds(v.s)]
              ELSE [k |-> "err", t |-> 0]
    [] v.k = "num" ->
         [k |-> "ts", t |-> DayNumber(1970, 1, 1) * 86400 + (v.n \div 1000000000)]
    [] OTHER -> [k |-> "nat", t |-> 0]

(* Timestamp.hour *)
HourOf(t) == (t % 86400) \div 3600

----------------------------------------------------------------------------
(* Files.  A path is [dir, name, ext], ext being the suffix as text.  The  *)
(* file system maps each path to the name of the file stored there, or to  *)
(* Missing; Catalog gives a stored file's content [fmt, cols, cells]: fmt  *)
(* is the encoding of its bytes ("csv", "xlsx", or "bad" for bytes no      *)
(* reader accepts), cols the header cells (each a sequence of tokens:      *)
(* blanks around one column name) and cells the data rows, one value per   *)
(* column.                                                                 *)

Missing == "missing"

Path(dir, name, ext) == [dir |-> dir, name |-> name, ext |-> ext]

DatasetXlsx == Path("", "dataset", <<".", "x", "l", "s", "x">>)

DatasetCsv == Path("", "dataset", <<".", "c", "s", "v">>)

UploadCsv == Path("uploads", "data", <<".", "C", "S", "V">>)

NoSuchFile == Path("", "nofile", <<".", "c", "s", "v">>)

Paths == {DatasetXlsx, DatasetCsv, UploadCsv, NoSuchFile}

UploadPaths == {p \in Paths : p.dir = "uploads"}

(* Path.exists() *)
exists(files, p) == files[p] # Missing

(* lines 29-33: the reader is chosen by the lowercased suffix; it raises   *)
(* when the bytes are not in its format.                                   *)
ReaderFor(p) == IF lower(p.ext) = <<".", "c", "s", "v">> THEN "csv" ELSE "xlsx"

ReadOk(p, file) == file.fmt = ReaderFor(p)

(* line 35: df.columns = [str(c).strip() for c in df.columns] *)
ColumnName(h) == strip(h)[1]

(* df.to_dict(orient="records"): one mapping column name -> cell per row *)
RowDict(cols, cells) ==
  [c \in {ColumnName(cols[i]) : i \in 1..Len(cols)} |->
     cells[CHOOSE i \in 1..Len(cols) : ColumnName(cols[i]) = c]]

to_dict(file) == [i \in 1..Len(file.cells) |-> RowDict(file.cols, file.cells[i])]

----------------------------------------------------------------------------
(* The normaliser of load_dataset: rows are the raw rows of the table read *)

VehicleKeys ==
  <<"vehicle", "Vehicle", "Vehicle No", "vehicle_no", "plate", "Plate",
    "RegistrationNo", "Registration No">>

TypeKeys == <<"type", "Type", "Violation Type", "violation", "Violation", "ViolationType">>

LocationKeys ==
  <<"location", "Location", "location_name", "Location Name", "place", "Place">>

DateKeys ==
  <<"date", "Date", "date_of_violation", "Date of Violation", "violation_date",
    "Violation Date">>

LatKeys == <<"latitude", "Latitude", "lat", "Lat">>

LonKeys == <<"longitude", "Longitude", "lon", "Lon", "long", "Long">>

Range(s) == {s[i] : i \in 1..Len(s)}

(* lines 65-69: the columns that are not copied as extra keys *)
ConsumedKeys ==
  Range(VehicleKeys) \cup Range(TypeKeys) \cup Range(LocationKeys)
    \cup Range(LatKeys) \cup Range(LonKeys)

RECURSIVE pick_fieldPresentOnly(_, _)
pick_fieldPresentOnly(row, variants) ==
  IF variants = <<>> THEN NoneV
  ELSE IF Head(variants) \in DOMAIN row
       THEN row[Head(variants)]
       ELSE pick_fieldPresentOnly(row, Tail(variants))

(* lines 37-41 *)
RECURSIVE pick_field(_, _)
pick_field(row, variants) ==
  IF variants = <<>> THEN NoneV
  ELSE IF Head(variants) \in DOMAIN row /\ notna(row[Head(variants)])
       THEN row[Head(variants)]
       ELSE pick_field(row, Tail(variants))

(* str(x).strip() if x is not None else '' *)
StrField(x) == IF x = NoneV THEN Str(<<>>) ELSE Str(strip(PyStr(x)))

CanonicalKeys == {"vehicle", "type", "location", "date", "latitude", "longitude"}

(* lines 62-71: the columns copied over the canonical fields *)
ExtraKeys(r) == {k \in DOMAIN r : notna(r[k]) /\ k \notin ConsumedKeys}

(* lines 45-72: the record built from one row *)
Normalize(r) ==
  LET base == [vehicle |-> StrField(pick_field(r, VehicleKeys)),
               type |-> StrField(pick_field(r, TypeKeys)),
               location |-> StrField(pick_field(r, LocationKeys)),
               date |-> StrField(pick_field(r, DateKeys)),
               latitude |-> pick_field(r, LatKeys),
               longitude |-> pick_field(r, LonKeys)]
  IN [k \in CanonicalKeys \cup ExtraKeys(r) |->
        IF k \in ExtraKeys(r) THEN r[k] ELSE base[k]]

(* lines 43-72: records, in row order *)
RecordsOf(file) == LET rows == to_dict(file) IN [i \in 1..Len(rows) |-> Normalize(rows[i])]

----------------------------------------------------------------------------
----------------------------------------------------------------------------
(* The files the requests and the default paths draw from *)

Hdr(name) == <<name>>

Padded(name) == <<" ", name, " ">>

Csv(cols, cells) == [fmt |-> "csv", cols |-> cols, cells |-> cells]

Xlsx(cols, cells) == [fmt |-> "xlsx", cols |-> cols, cells |-> cells]

BadFile == [fmt |-> "bad", cols |-> <<>>, cells |-> <<>>]

CoreCols == <<Hdr("Vehicle No"), Padded("Location"), Hdr("Date")>>

CoreRowA == <<Str(<<"K", "1">>), Str(<<"M", "G", " ", "R", "d">>), Str(<<"2", "0", "2", "3", "-", "0", "1", "-", "0", "1", "T", "0", "8", ":", "0", "0">>)>>

CoreRowB == <<Str(<<"K", "2", " ">>), Str(<<"R", "i", "n", "g">>), Str(<<"2", "0", "2", "3", "-", "0", "1", "-", "0", "2">>)>>

CoreRowC == <<Num(7), NaN, Str(<<"s", "o", "o", "n">>)>>

AggCols ==
  <<Hdr("Type"), Hdr("Location"), Hdr("date"), Hdr("lat"), Hdr("lon"),
    Hdr("Number of Accidents - 2017"), Hdr("Persons Killed - 2017"),
    Hdr("Persons Injured - 2017"), Hdr("Persons Killed - 2018")>>

AggRow1 ==
  <<Str(<<"S", "p", "e", "e", "d", "i", "n", "g">>), Str(<<"X">>), Str(<<"2", "0", "2", "3", "-", "0", "1", "-", "0", "1", "T", "0", "8", ":", "0", "0">>), NaN, NaN,
    Num(2), Str(<<"n", "/", "a">>), Num(5), Num(4)>>

AggRow2 == <<NaN, Str(<<"X", " ">>), NaN, Num(12), Num(77), NaN, Num(1), Num(3), NaN>>

AggRow3 == <<Str(<<" ">>), NaN, Str(<<"s", "o", "o", "n">>), Str(<<"a", "b", "c">>), Num(5), NaN, NaN, NaN, NaN>>

AggRow4 ==
  <<Str(<<"S", "i", "g", "n", "a", "l", " ", "J", "u", "m", "p">>), Str(<<"X">>), Str(<<"2", "0", "2", "3", "-", "0", "1", "-", "0", "3">>), Num(13), Str(<<"7", "8">>),
    Str(<<"7">>), NaN, NaN, NaN>>

RankCols == <<Hdr("place")>>

RankRow(loc) == <<Str(loc)>>

RecoCols == <<Hdr("Violation Type"), Hdr("Location Name")>>

RecoRow(type, loc) == <<Str(type), Str(loc)>>

Parking(n) == [i \in 1..n |-> RecoRow(<<"P", "a", "r", "k", "i", "n", "g">>, <<"P">>)]

SafetyCols ==
  <<Hdr("Location"), Hdr("Number of Accidents - 2017"), Hdr("Number of Accidents - 2018"),
    Hdr("Persons Killed - 2017"), Hdr("Persons Killed - 2018")>>

SafetyRow1 == <<Str(<<"Q">>), Num(3), Num(4), NaN, Num(5)>>

SafetyRow2 == <<Str(<<"Q">>), Num(1), NaN, Num(4), Num(3)>>

SafetyRow3 == <<Str(<<"R">>), NaN, NaN, NaN, NaN>>

Catalog ==
  [bad |-> BadFile,
   safe_1 |-> Csv(SafetyCols, <<SafetyRow1>>),
   safe_2 |-> Csv(SafetyCols, <<SafetyRow2>>),
   safe_3 |-> Csv(SafetyCols, <<SafetyRow3>>),
   conc_a |-> Xlsx(CoreCols, <<CoreRowA>>),
   conc_b |-> Csv(CoreCols, <<CoreRowB>>),
   reco_p14 |-> Csv(RecoCols, Parking(14)),
   reco_s3 |-> Csv(RecoCols, <<RecoRow(<<"S", "p", "e", "e", "d", "i", "n", "g">>, <<"S">>), RecoRow(<<"O", "V", "E", "R", "S", "P", "E", "E", "D">>, <<"S">>),
                               RecoRow(<<"S", "p", "e", "e", "d", "i", "n", "g">>, <<"S">>)>>),
   reco_g3 |-> Csv(RecoCols, <<RecoRow(<<"S", "i", "g", "n", "a", "l", " ", "J", "u", "m", "p">>, <<"G">>), RecoRow(<<"N", "o", " ", "s", "i", "g", "n", "a", "l">>, <<"G">>),
                               RecoRow(<<"S", "I", "G", "N", "A", "L">>, <<"G">>)>>),
   rank_base |-> Csv(RankCols, <<RankRow(<<"A">>), RankRow(<<"B">>), RankRow(<<"C">>),
                                 RankRow(<<"D">>), RankRow(<<"E">>)>>),
   rank_f |-> Csv(RankCols, <<RankRow(<<"F">>)>>),
   rank_c |-> Csv(RankCols, <<RankRow(<<"C">>)>>),
   agg_1 |-> Csv(AggCols, <<AggRow1>>),
   agg_2 |-> Csv(AggCols, <<AggRow2>>),
   agg_3 |-> Csv(AggCols, <<AggRow3>>),
   agg_4 |-> Csv(AggCols, <<AggRow4>>),
   core_ab |-> Csv(CoreCols, <<CoreRowA, CoreRowB>>),
   core_a |-> Csv(CoreCols, <<CoreRowA>>),
   core_c |-> Xlsx(CoreCols, <<CoreRowC>>),
   core_empty |-> Csv(CoreCols, <<>>)]

(* load_dataset(path, clear_existing), run without interruption: the value *)
(* returned (ok), the message printed (log: "missing" line 22, "loaded"    *)
(* line 75 with the number of records n, "error" line 78) and the list it  *)
(* leaves behind (data).                                                   *)

AfterClearKeeps(data, clear_existing) == data

(* lines 26-27 *)
AfterClear(data, clear_existing) == IF clear_existing THEN <<>> ELSE data

ExtendFront(data, records) == records \o data

(* line 74: violations.extend(records) *)
Extend(data, records) == data \o records

load_datasetParsesFirst(files, data, p, clear_existing) ==
  IF ~exists(files, p) \/ ~ReadOk(p, Catalog[files[p]])
  THEN [ok |-> FALSE, log |-> IF exists(files, p) THEN "error" ELSE "missing", n |-> 0,
        data |-> data]
  ELSE LET records == RecordsOf(Catalog[files[p]])
       IN [ok |-> TRUE, log |-> "loaded", n |-> Len(records),
           data |-> Extend(AfterClear(data, clear_existing), records)]

load_datasetKeepsRows(files, data, p, clear_existing) ==
  IF ~exists(files, p)
  THEN [ok |-> FALSE, log |-> "missing", n |-> 0, data |-> data]
  ELSE LET records == RecordsOf(Catalog[files[p]])
       IN [ok |-> ReadOk(p, Catalog[files[p]]),
           log |-> IF ReadOk(p, Catalog[files[p]]) THEN "loaded" ELSE "error",
           n |-> IF ReadOk(p, Catalog[files[p]]) THEN Len(records) ELSE 0,
           data |-> Extend(AfterClear(data, clear_existing), records)]

load_datasetClearsFirst(files, data, p, clear_existing) ==
  IF ~exists(files, p)
  THEN [ok |-> FALSE, log |-> "missing", n |-> 0, data |-> AfterClear(data, clear_existing)]
  ELSE IF ~ReadOk(p, Catalog[files[p]])
       THEN [ok |-> FALSE, log |-> "error", n |-> 0,
             data |-> AfterClear(data, clear_existing)]
       ELSE LET records == RecordsOf(Catalog[files[p]])
            IN [ok |-> TRUE, log |-> "loaded", n |-> Len(records),
                data |-> Extend(AfterClear(data, clear_existing), records)]

load_dataset(files, data, p, clear_existing) ==
  IF ~exists(files, p)
  THEN [ok |-> FALSE, log |-> "missing", n |-> 0, data |-> data]
  ELSE IF ~ReadOk(p, Catalog[files[p]])
       THEN [ok |-> FALSE, log |-> "error", n |-> 0,
             data |-> AfterClear(data, clear_existing)]
       ELSE LET records == RecordsOf(Catalog[files[p]])
            IN [ok |-> TRUE, log |-> "loaded", n |-> Len(records),
                data |-> Extend(AfterClear(data, clear_existing), records)]

(* lines 82-84, 105-107, 113-115: dataset.xlsx, then dataset.csv if that fails *)
LoadDefault(files, data) ==
  LET first == load_dataset(files, data, DatasetXlsx, TRUE)
  IN IF first.ok THEN first ELSE load_dataset(files, first.data, DatasetCsv, TRUE)

EnsureDataAlways(files, data) == LoadDefault(files, data).data

(* lines 105, 113: if not violations: ... *)
EnsureData(files, data) == IF data = <<>> THEN LoadDefault(files, data).data ELSE data

----------------------------------------------------------------------------
(* analytics(): the aggregation of a record list.  A dict of counts is a   *)
(* sequence of [key, n] in insertion order, as a Python dict keeps it.     *)

Unknown == <<"U", "n", "k", "n", "o", "w", "n">>

Front(s) == SubSeq(s, 1, Len(s) - 1)

Last(s) == s[Len(s)]

HasKey(d, key) == \E i \in 1..Len(d) : d[i].key = key

CountOf(d, key) == IF HasKey(d, key) THEN d[CHOOSE i \in 1..Len(d) : d[i].key = key].n ELSE 0

IncOnce(d, key) == IF HasKey(d, key) THEN d ELSE Append(d, [key |-> key, n |-> 1])

(* d[key] = d.get(key, 0) + 1 *)
Inc(d, key) ==
  IF HasKey(d, key)
  THEN [i \in 1..Len(d) |-> IF d[i].key = key THEN [key |-> key, n |-> d[i].n + 1] ELSE d[i]]
  ELSE Append(d, [key |-> key, n |-> 1])

RECURSIVE SumValues(_)
SumValues(d) == IF d = <<>> THEN 0 ELSE SumValues(Front(d)) + Last(d).n

(* `a or b` *)
Or(a, b) == IF Truthy(a) THEN a ELSE b

(* str(x).strip() or 'Unknown' *)
Label(x) == LET s == strip(PyStr(x)) IN IF s = <<>> THEN Unknown ELSE s

(* lines 157-158 *)
TypeLabel(v) ==
  Label(Or(Get(v, "type"), Or(Get(v, "Type"), Or(Get(v, "Violation Type"), Str(Unknown)))))

(* lines 162-163 *)
LocLabel(v) == Label(Or(Get(v, "location"), Str(Unknown)))

(* lines 177-178 *)
DateLabel(v) == Label(Or(Get(v, "date"), Str(Unknown)))

(* line 159 *)
RECURSIVE TallyTypes(_)
TallyTypes(data) ==
  IF data = <<>> THEN <<>> ELSE Inc(TallyTypes(Front(data)), TypeLabel(Last(data)))

(* lines 164-165 *)
RECURSIVE TallyLocations(_)
TallyLocations(data) ==
  IF data = <<>> THEN <<>>
  ELSE LET d == TallyLocations(Front(data))
           loc == LocLabel(Last(data))
       IN IF loc # <<>> THEN Inc(d, loc) ELSE d

(* line 179 *)
RECURSIVE TallyDates(_)
TallyDates(data) ==
  IF data = <<>> THEN <<>> ELSE Inc(TallyDates(Front(data)), DateLabel(Last(data)))

CaptureCoordsLastWins(coords, v) ==
  LET loc == LocLabel(v)
      lat == Get(v, "latitude")
      lon == Get(v, "longitude")
  IN IF lat # NoneV /\ lon # NoneV /\ PyFloat(lat).ok /\ PyFloat(lon).ok
     THEN [l \in DOMAIN coords \cup {loc} |->
             IF l = loc THEN [lat |-> PyFloat(lat).n, lng |-> PyFloat(lon).n] ELSE coords[l]]
     ELSE coords

(* lines 167-174: what one record does to location_coords *)
CaptureCoords(coords, v) ==
  LET loc == LocLabel(v)
      lat == Get(v, "latitude")
      lon == Get(v, "longitude")
  IN IF loc # <<>> /\ loc \notin DOMAIN coords /\ lat # NoneV /\ lon # NoneV
        /\ PyFloat(lat).ok /\ PyFloat(lon).ok
     THEN coords @@ (loc :> [lat |-> PyFloat(lat).n, lng |-> PyFloat(lon).n])
     ELSE coords

RECURSIVE LocationCoords(_)
LocationCoords(data) ==
  IF data = <<>> THEN <<>> ELSE CaptureCoords(LocationCoords(Front(data)), Last(data))

HourStepAlways(hours, v) ==
  LET d == DateLabel(v)
      dt == to_datetime(Str(d))
  IN [hours EXCEPT ![HourOf(dt.t)] = @ + 1]

(* lines 182-188: what one record does to by_hour *)
HourStep(hours, v) ==
  LET d == DateLabel(v)
      dt == to_datetime(Str(d))
  IN IF d # Unknown /\ dt.k = "ts"
     THEN [hours EXCEPT ![HourOf(dt.t)] = @ + 1]
     ELSE hours

RECURSIVE ByHour(_)
ByHour(data) ==
  IF data = <<>> THEN [h \in 0..23 |-> 0] ELSE HourStep(ByHour(Front(data)), Last(data))

(* lines 150-153, 192-197: the counters and the column each one sums, in   *)
(* the order the statements run                                            *)
SafetyFields ==
  <<[stat |-> "accidents_2017", col |-> "Number of Accidents - 2017"],
    [stat |-> "killed_2017", col |-> "Persons Killed - 2017"],
    [stat |-> "injured_2017", col |-> "Persons Injured - 2017"],
    [stat |-> "accidents_2018", col |-> "Number of Accidents - 2018"],
    [stat |-> "killed_2018", col |-> "Persons Killed - 2018"],
    [stat |-> "injured_2018", col |-> "Persons Injured - 2018"]>>

SafetyStats == {SafetyFields[i].stat : i \in 1..Len(SafetyFields)}

(* float(v.get(col, 0) or 0) *)
SafetyValue(v, col) == PyFloat(Or(GetOr(v, col, Num(0)), Num(0)))

(* lines 191-199: the six additions of one record; the first one that     *)
(* raises ends the try block, so only the statements before it take effect *)
Completed(v) ==
  IF \A i \in 1..Len(SafetyFields) : SafetyValue(v, SafetyFields[i].col).ok
  THEN Len(SafetyFields)
  ELSE (CHOOSE i \in 1..Len(SafetyFields) :
          /\ ~SafetyValue(v, SafetyFields[i].col).ok
          /\ \A h \in 1..(i - 1) : SafetyValue(v, SafetyFields[h].col).ok) - 1

SafetyStep(stats, v) ==
  LET done == Completed(v)
  IN [s \in SafetyStats |->
        LET i == CHOOSE j \in 1..Len(SafetyFields) : SafetyFields[j].stat = s
        IN IF i <= done THEN stats[s] + SafetyValue(v, SafetyFields[i].col).n ELSE stats[s]]

RECURSIVE SafetySums(_)
SafetySums(data) ==
  IF data = <<>> THEN [s \in SafetyStats |-> 0]
  ELSE SafetyStep(SafetySums(Front(data)), Last(data))

(* The quotient num / den (den # 0) as a fraction in lowest terms with a   *)
(* positive denominator: the number the float division of line 215 rounds  *)
(* to the nearest double.                                                  *)
RECURSIVE Gcd(_, _)
Gcd(a, b) == IF b = 0 THEN a ELSE Gcd(b, a % b)

Abs(x) == IF x < 0 THEN -x ELSE x

Ratio(num, den) ==
  LET g == Gcd(Abs(num), Abs(den))
      sign == IF den < 0 THEN -1 ELSE 1
  IN [num |-> sign * (num \div g), den |-> sign * (den \div g)]

calc_pctOfNew(new, old) ==
  IF old # 0 THEN Ratio((old - new) * 100, old) ELSE Ratio(0, 1)

(* lines 214-215 *)
calc_pct(new, old) ==
  IF old # 0 THEN Ratio((new - old) * 100, old) ELSE Ratio(0, 1)

(* lines 217-219: the fields added to safety_stats and their arguments *)
PctFields ==
  <<[pct |-> "pct_accidents", new |-> "accidents_2018", old |-> "accidents_2017"],
    [pct |-> "pct_killed", new |-> "killed_2018", old |-> "killed_2017"],
    [pct |-> "pct_injured", new |-> "injured_2018", old |-> "injured_2017"]>>

WithPct(stats) ==
  stats @@ [p \in {PctFields[i].pct : i \in 1..Len(PctFields)} |->
              LET f == PctFields[CHOOSE i \in 1..Len(PctFields) : PctFields[i].pct = p]
              IN calc_pct(stats[f.new], stats[f.old])]

(* lines 201-202 *)
RECURSIVE SumMatching(_, _)
SumMatching(d, word) ==
  IF d = <<>> THEN 0
  ELSE SumMatching(Front(d), word)
       + (IF Contains(word, lower(Last(d).key)) THEN Last(d).n ELSE 0)

(* line 205: sorted(items, key=count, reverse=True), a stable sort: an     *)
(* item goes before the first one whose count is smaller.                  *)
InsertDescUnstable(sorted, e) ==
  IF \E i \in 1..Len(sorted) : sorted[i].n <= e.n
  THEN LET j == CHOOSE i \in 1..Len(sorted) :
                  /\ sorted[i].n <= e.n
                  /\ \A h \in 1..(i - 1) : sorted[h].n > e.n
       IN SubSeq(sorted, 1, j - 1) \o <<e>> \o SubSeq(sorted, j, Len(sorted))
  ELSE Append(sorted, e)

InsertDesc(sorted, e) ==
  IF \E i \in 1..Len(sorted) : sorted[i].n < e.n
  THEN LET j == CHOOSE i \in 1..Len(sorted) :
                  /\ sorted[i].n < e.n
                  /\ \A h \in 1..(i - 1) : sorted[h].n >= e.n
       IN SubSeq(sorted, 1, j - 1) \o <<e>> \o SubSeq(sorted, j, Len(sorted))
  ELSE Append(sorted, e)

RECURSIVE SortDesc(_)
SortDesc(d) == IF d = <<>> THEN <<>> ELSE InsertDesc(SortDesc(Front(d)), Last(d))

TopN == 5

(* lines 206-211 *)
Zone(e, coords) ==
  [location |-> e.key, count |-> e.n,
   has_coords |-> e.key \in DOMAIN coords,
   coordinates |-> IF e.key \in DOMAIN coords THEN coords[e.key] ELSE [lat |-> 0, lng |-> 0]]

HighRiskZones(by_location, coords) ==
  LET top == SubSeq(SortDesc(by_location), 1,
                    IF Len(by_location) < TopN THEN Len(by_location) ELSE TopN)
  IN [i \in 1..Len(top) |-> Zone(top[i], coords)]

(* lines 222-231.  over_speed / total > 0.15 is compared exactly:          *)
(* 100 * over_speed > 15 * total.                                          *)
SpeedAdvice == [kind |-> "speed", zone |-> <<>>]

SignalAdvice == [kind |-> "signal", zone |-> <<>>]

PriorityAdvice(loc) == [kind |-> "priority", zone |-> loc]

OverThresholdInclusive(part, total) == 100 * part >= 15 * total

OverThreshold(part, total) == 100 * part > 15 * total

Recommendations(total, over_speed, signal_jump, zones) ==
  (IF total > 0 /\ OverThreshold(over_speed, total) THEN <<SpeedAdvice>> ELSE <<>>)
  \o (IF total > 0 /\ OverThreshold(signal_jump, total) THEN <<SignalAdvice>> ELSE <<>>)
  \o (IF zones # <<>> THEN <<PriorityAdvice(zones[1].location)>> ELSE <<>>)

(* lines 123-140: the records analytics aggregates.  start and end are the *)
(* query arguments (NoneV when absent).  A bound that does not parse       *)
(* raises, the outer handler prints, and the whole list is kept; a record  *)
(* whose date raises is skipped; a NaT compares false both ways.           *)
Keeps(v, sd, ed) ==
  LET dv == to_datetime(Get(v, "date"))
  IN /\ dv.k # "err"
     /\ ~(sd.k = "ts" /\ dv.k = "ts" /\ dv.t < sd.t)
     /\ ~(ed.k = "ts" /\ dv.k = "ts" /\ dv.t > ed.t)

(* The list analytics aggregates holds the dataset's own records; it is    *)
(* modelled by their positions in the dataset, in order.                   *)
RECURSIVE Select(_, _, _, _)
Select(data, n, sd, ed) ==
  IF n = 0 THEN <<>>
  ELSE Select(data, n - 1, sd, ed) \o (IF Keeps(data[n], sd, ed) THEN <<n>> ELSE <<>>)

NoBound == [k |-> "none", t |-> 0]

(* pd.to_datetime(end_date) + Timedelta(days=1) - Timedelta(seconds=1) *)
EndOfDay(dt) == IF dt.k = "ts" THEN [k |-> "ts", t |-> dt.t + 86400 - 1] ELSE dt

All(data) == [i \in 1..Len(data) |-> i]

DateFilter(data, start, end) ==
  IF ~(Truthy(start) \/ Truthy(end)) THEN All(data)
  ELSE LET sd == IF Truthy(start) THEN to_datetime(start) ELSE NoBound
           ed == IF Truthy(end) THEN EndOfDay(to_datetime(end)) ELSE NoBound
       IN IF sd.k = "err" \/ ed.k = "err" THEN All(data)
          ELSE Select(data, Len(data), sd, ed)

Pick(data, kept) == [j \in 1..Len(kept) |-> data[kept[j]]]

(* lines 142-244: the report built from `total` and the records iterated *)
Report(total, data) ==
  LET by_type == TallyTypes(data)
      by_location == TallyLocations(data)
      zones == HighRiskZones(by_location, LocationCoords(data))
      over_speed == SumMatching(by_type, <<"s", "p", "e", "e", "d">>)
      signal_jump == SumMatching(by_type, <<"s", "i", "g", "n", "a", "l">>)
  IN [total_violations |-> total,
      by_type |-> by_type,
      by_location |-> by_location,
      by_date |-> TallyDates(data),
      by_hour |-> ByHour(data),
      high_risk_zones |-> zones,
      over_speed |-> over_speed,
      signal_jump |-> signal_jump,
      recommendations |-> Recommendations(total, over_speed, signal_jump, zones),
      safety_stats |-> WithPct(SafetySums(data))]

----------------------------------------------------------------------------
(* The request handlers, each run to completion.  `last` is the request    *)
(* just served and its response.                                           *)

Append_ == <<"a", "p", "p", "e", "n", "d">>

Replace_ == <<"r", "e", "p", "l", "a", "c", "e">>

(* lines 255-256 *)
IsReplace(mode) == lower(PyStr(Or(mode, Str(Replace_)))) # Append_

(* lines 246-276.  stage: how far the request gets: "nofile" and "noname"  *)
(* are rejected (lines 248-252), "save" is f.save raising (lines 264-268), *)
(* "load" reaches load_dataset.                                            *)
Upload(stage, dest, file, mode, cap) ==
  LET replace == IsReplace(mode)
      files == [fs EXCEPT ![dest] = file]
      res == load_dataset(files, violations, dest, replace)
  IN /\ UNCHANGED <<threads, stable>>
     /\ IF stage # "load"
        THEN /\ UNCHANGED <<fs, violations>>
             /\ last' = [op |-> "upload", status |-> IF stage = "save" THEN 500 ELSE 400,
                         ok |-> FALSE, stage |-> stage]
        ELSE /\ Len(res.data) <= cap
             /\ fs' = files
             /\ violations' = res.data
             /\ last' = [op |-> "upload", status |-> IF res.ok THEN 200 ELSE 400,
                         ok |-> res.ok, stage |-> stage, path |-> dest,
                         replace |-> replace, log |-> res.log, n |-> res.n]

NoPath == Path("", "", <<>>)

(* lines 279-285 *)
Reload(path, clear, cap) ==
  LET p == IF path = NoPath THEN DatasetXlsx ELSE path
      res == load_dataset(fs, violations, p, clear)
  IN /\ Len(res.data) <= cap
     /\ violations' = res.data
     /\ last' = [op |-> "reload", ok |-> res.ok, stage |-> "load", path |-> p,
                 replace |-> clear, log |-> res.log, n |-> res.n]
     /\ UNCHANGED <<fs, threads, stable>>

(* lines 294-301, 320-330: every file of the uploads directory is removed *)
WithoutUploads(files) == [p \in Paths |-> IF p \in UploadPaths THEN Missing ELSE files[p]]

(* lines 288-302 *)
ClearDataset(delete_files) ==
  /\ violations' = <<>>
  /\ fs' = IF delete_files THEN WithoutUploads(fs) ELSE fs
  /\ last' = [op |-> "clear", total |-> 0]
  /\ UNCHANGED <<threads, stable>>

(* lines 317-331 *)
DeleteUploadedFiles ==
  /\ fs' = WithoutUploads(fs)
  /\ last' = [op |-> "delete_uploaded"]
  /\ UNCHANGED <<violations, threads, stable>>

(* lines 102-108 *)
GetViolations ==
  /\ violations' = EnsureData(fs, violations)
  /\ last' = [op |-> "violations", total |-> Len(violations')]
  /\ UNCHANGED <<fs, threads, stable>>

(* lines 110-244 *)
Analytics(start, end) ==
  LET data == EnsureData(fs, violations)
      kept == DateFilter(data, start, end)
      data_source == Pick(data, kept)
  IN /\ violations' = data
     /\ last' = [op |-> "analytics", start |-> start, end |-> end, kept |-> kept,
                 report |-> Report(Len(data_source), data_source)]
     /\ UNCHANGED <<fs, threads, stable>>

Modes == {NoneV, Str(<<"A", "p", "p", "e", "n", "d">>), Str(<<"m", "e", "r", "g", "e">>)}

(* One request: the file uploaded is drawn from Files, the path reloaded   *)
(* from Sources, the date arguments from Starts and Ends.                  *)
Serve(Files, Sources, Starts, Ends, cap) ==
  \/ \E stage \in {"nofile", "noname", "save"} :
       Upload(stage, UploadCsv, Missing, NoneV, cap)
  \/ \E dest \in UploadPaths, file \in Files, mode \in Modes :
       Upload("load", dest, file, mode, cap)
  \/ \E path \in Sources, clear \in BOOLEAN : Reload(path, clear, cap)
  \/ \E delete_files \in BOOLEAN : ClearDataset(delete_files)
  \/ DeleteUploadedFiles
  \/ GetViolations
  \/ \E start \in Starts, end \in Ends : Analytics(start, end)

NoThreads == <<>>

(* lines 82-84: the module loads a default dataset when it is imported *)
Boot(XlsxChoices, CsvChoices) ==
  /\ fs \in {[p \in Paths |-> IF p = DatasetXlsx THEN x ELSE IF p = DatasetCsv THEN c ELSE Missing] :
               x \in XlsxChoices, c \in CsvChoices}
  /\ violations = LoadDefault(fs, <<>>).data
  /\ last = [op |-> "start"]
  /\ threads = NoThreads
  /\ stable = {}

----------------------------------------------------------------------------
(* The store specification *)

CoreFiles == {"core_ab", "core_c", "core_empty", "bad"}

CoreDates == {NoneV}

MaxRecords == 3

Init == Boot({Missing, "bad", "core_c"}, {Missing, "core_a"})

Next == Serve(CoreFiles, Paths \cup {NoPath}, CoreDates, CoreDates, MaxRecords)

Spec == Init /\ [][Next]_vars

----------------------------------------------------------------------------
(* Properties of the store *)

(* The step served a request that reached load_dataset *)
IsLoad(req) == req.op \in {"upload", "reload"} /\ req.stage = "load"

(* The rows of the table a load read *)
RowsAt(files, p) == Len(Catalog[files[p]].cells)

(* C1: an append load never decreases the number of records and, when it   *)
(* succeeds, adds exactly the number of rows of its source; a successful   *)
(* replace load leaves exactly the number of rows of its source.           *)
C1_LoadCounts ==
  [][IsLoad(last') =>
       /\ (~last'.replace => Len(violations') >= Len(violations))
       /\ (~last'.replace /\ last'.ok =>
             Len(violations') = Len(violations) + RowsAt(fs', last'.path))
       /\ (last'.replace /\ last'.ok => Len(violations') = RowsAt(fs', last'.path))]_vars

(* A successful append load of two rows onto a dataset of one record *)
C1_Witness ==
  IsLoad(last) /\ last.ok /\ ~last.replace /\ last.n = 2 /\ Len(violations) = 3

(* C4: a load whose source does not exist returns failure and leaves the   *)
(* dataset as it was.                                                      *)
C4_MissingSourceUntouched ==
  [][IsLoad(last') /\ ~exists(fs', last'.path) =>
       ~last'.ok /\ violations' = violations]_vars

(* A replace load of a missing source served over a non-empty dataset *)
C4_Witness ==
  /\ IsLoad(last) /\ last.replace /\ ~exists(fs, last.path) /\ violations # <<>>

IsPrefix(a, b) == Len(a) <= Len(b) /\ SubSeq(b, 1, Len(a)) = a

(* C16: a successful append load leaves the previous dataset, unchanged    *)
(* and in order, followed by the records of the rows of its source in row  *)
(* order; a request that is neither a clear nor a replace load keeps every *)
(* record the dataset held, unchanged and in place.                        *)
C16_LoadOrderKept ==
  [][/\ (IsLoad(last') /\ last'.ok /\ ~last'.replace =>
           violations' = violations \o RecordsOf(Catalog[fs'[last'.path]]))
     /\ (~(last'.op = "clear" \/ (IsLoad(last') /\ last'.replace)) =>
           IsPrefix(violations, violations'))]_vars

(* An append load has put the two records of its source, in row order,     *)
(* after a different record                                                *)
C16_Witness ==
  /\ IsLoad(last) /\ last.ok /\ ~last.replace
  /\ Len(violations) = 3 /\ last.n = 2
  /\ violations[2].vehicle = Str(<<"K", "1">>) /\ violations[3].vehicle = Str(<<"K", "2">>)
  /\ violations[1] # violations[2]

(* The source of the load exists and its bytes are not in the format of    *)
(* the reader chosen for its suffix                                        *)
ParseFails(req, files) ==
  exists(files, req.path) /\ ~ReadOk(req.path, Catalog[files[req.path]])

(* C17: a replace load whose source exists but does not parse returns      *)
(* failure and leaves the dataset empty.                                   *)
C17_FailedReplaceLeavesEmpty ==
  (IsLoad(last) /\ last.replace /\ ParseFails(last, fs)) =>
    (~last.ok /\ last.log = "error" /\ violations = <<>>)

(* A replace upload of a file with one row that the reader of its path     *)
(* rejects                                                                 *)
C17_Witness ==
  /\ last.op = "upload" /\ last.stage = "load" /\ last.replace
  /\ ParseFails(last, fs) /\ RowsAt(fs, last.path) = 1
  /\ violations = <<>>

(* C18: a load that returns failure adds no record: it leaves the dataset  *)
(* as it was or, for a replace load, empty; a failed append load leaves it *)
(* exactly as it was.                                                      *)
C18_FailedLoadAddsNothing ==
  [][(IsLoad(last') /\ ~last'.ok) =>
       /\ violations' \in {violations, <<>>}
       /\ (~last'.replace => violations' = violations)
       /\ last'.n = 0]_vars

(* A failed append load of a source that has a row, over a dataset that    *)
(* holds records                                                           *)
C18_Witness ==
  /\ IsLoad(last) /\ ~last.ok /\ ~last.replace
  /\ ParseFails(last, fs) /\ RowsAt(fs, last.path) > 0
  /\ violations # <<>>

----------------------------------------------------------------------------
(* The aggregation specification: single-row uploads whose rows vary in    *)
(* type, location, date, coordinates and safety columns.                   *)

AggFiles == {"agg_1", "agg_2", "agg_3", "agg_4"}

AggStarts == {NoneV, Str(<<"2", "0", "2", "3", "-", "0", "1", "-", "0", "2">>)}

AggEnds == {NoneV, Str(<<"2", "0", "2", "3", "-", "0", "1", "-", "0", "1">>), Str(<<"b", "a", "d">>)}

MaxAggRecords == 2

InitAgg == Boot({Missing}, {Missing})

NextAgg == Serve(AggFiles, {UploadCsv, NoPath}, AggStarts, AggEnds, MaxAggRecords)

SpecAgg == InitAgg /\ [][NextAgg]_vars

(* The records the analytics request just served aggregated *)
Aggregated == Pick(violations, last.kept)

(* A field that is missing, empty, blank, or the word Unknown itself *)
Blank(x) == ~Truthy(x) \/ (x.k = "str" /\ strip(x.s) \in {<<>>, Unknown})

BlankCount(data, field) == Cardinality({i \in 1..Len(data) : Blank(Get(data[i], field))})

(* C5: the counts of by_type, by_location and by_date each sum to          *)
(* total_violations, which is the number of records aggregated, and the    *)
(* records whose field is empty or missing are counted under "Unknown".    *)
C5_BucketSums ==
  last.op = "analytics" =>
    LET r == last.report
    IN /\ r.total_violations = Len(Aggregated)
       /\ SumValues(r.by_type) = r.total_violations
       /\ SumValues(r.by_location) = r.total_violations
       /\ SumValues(r.by_date) = r.total_violations
       /\ CountOf(r.by_type, Unknown) = BlankCount(Aggregated, "type")
       /\ CountOf(r.by_location, Unknown) = BlankCount(Aggregated, "location")
       /\ CountOf(r.by_date, Unknown) = BlankCount(Aggregated, "date")

(* Two records of one location, the type of one of them blank *)
C5_Witness ==
  /\ last.op = "analytics"
  /\ last.report.total_violations = 2
  /\ CountOf(last.report.by_type, Unknown) = 1
  /\ CountOf(last.report.by_location, <<"X">>) = 2

(* Both coordinates of a record are present and coerce to numbers *)
Coercible(v) ==
  /\ Get(v, "latitude") # NoneV /\ Get(v, "longitude") # NoneV
  /\ PyFloat(Get(v, "latitude")).ok /\ PyFloat(Get(v, "longitude")).ok

PairOf(v) == [lat |-> PyFloat(Get(v, "latitude")).n, lng |-> PyFloat(Get(v, "longitude")).n]

Least(S) == CHOOSE i \in S : \A j \in S : i <= j

Occurrences(data, loc) == {i \in 1..Len(data) : LocLabel(data[i]) = loc}

(* C7 as claimed: a zone's coordinates are those of the first record of    *)
(* its location, and it has none when that record carries no numeric pair. *)
C7_FirstOccurrenceDecides ==
  last.op = "analytics" =>
    \A z \in Range(last.report.high_risk_zones) :
      LET first == Aggregated[Least(Occurrences(Aggregated, z.location))]
      IN /\ z.has_coords = Coercible(first)
         /\ (z.has_coords => z.coordinates = PairOf(first))

(* C7: a zone's coordinates are those of the first record of its location  *)
(* whose latitude and longitude both coerce to numbers; records after that *)
(* one never replace them, and the zone has none when no record of the     *)
(* location carries such a pair.                                           *)
C7_FirstNumericPairWins ==
  last.op = "analytics" =>
    \A z \in Range(last.report.high_risk_zones) :
      LET with == {i \in Occurrences(Aggregated, z.location) : Coercible(Aggregated[i])}
      IN /\ z.has_coords = (with # {})
         /\ (z.has_coords => z.coordinates = PairOf(Aggregated[Least(with)]))

(* Two records of one location with different numeric pairs *)
C7_Witness ==
  /\ last.op = "analytics" /\ Len(Aggregated) = 2
  /\ LocLabel(Aggregated[1]) = LocLabel(Aggregated[2])
  /\ Coercible(Aggregated[1]) /\ Coercible(Aggregated[2])
  /\ PairOf(Aggregated[1]) # PairOf(Aggregated[2])
  /\ last.report.high_risk_zones[1].has_coords

(* The date bounds of the request, when supplied *)
Supplied(x) == Truthy(x)

InRange(v, start, end) ==
  LET dv == to_datetime(Get(v, "date"))
  IN /\ dv.k = "ts"
     /\ (Supplied(start) => to_datetime(start).t <= dv.t)
     /\ (Supplied(end) => dv.t <= to_datetime(end).t + 86400 - 1)

Ascending(S) == [j \in 1..Cardinality(S) |-> CHOOSE i \in S : Cardinality({h \in S : h < i}) = j - 1]

(* C9: with a bound supplied (and parsing), analytics aggregates exactly   *)
(* the records whose date parses to a timestamp within the bounds, in      *)
(* dataset order; with no bound it aggregates every record.                *)
C9_FilterKeepsParsedInRange ==
  (/\ last.op = "analytics"
   /\ (Supplied(last.start) => to_datetime(last.start).k = "ts")
   /\ (Supplied(last.end) => to_datetime(last.end).k = "ts")) =>
    last.kept =
      IF Supplied(last.start) \/ Supplied(last.end)
      THEN Ascending({i \in 1..Len(violations) : InRange(violations[i], last.start, last.end)})
      ELSE All(violations)

RECURSIVE FieldSum(_, _, _)
FieldSum(data, n, col) ==
  IF n = 0 THEN 0
  ELSE FieldSum(data, n - 1, col)
       + (LET x == PyFloat(GetOr(data[n], col, Num(0))) IN IF x.ok THEN x.n ELSE 0)

(* C10: each safety counter is the sum over the aggregated records of the  *)
(* field's value where it is numeric, whatever the record's other safety   *)
(* fields hold.                                                            *)
C10_SafetySumsPerField ==
  last.op = "analytics" =>
    \A i \in 1..Len(SafetyFields) :
      last.report.safety_stats[SafetyFields[i].stat]
        = FieldSum(Aggregated, Len(Aggregated), SafetyFields[i].col)

(* The aggregated records whose date is a timestamp of hour h *)
AtHour(data, h) ==
  {i \in 1..Len(data) :
     LET dv == to_datetime(Get(data[i], "date")) IN dv.k = "ts" /\ HourOf(dv.t) = h}

RECURSIVE SumTo(_, _)
SumTo(f, n) == IF n < 0 THEN 0 ELSE SumTo(f, n - 1) + f[n]

(* C12: by_hour has exactly the keys 0..23, by_hour[h] is the number of    *)
(* aggregated records whose date parses to a timestamp of hour h, and the  *)
(* buckets sum to at most total_violations.                                *)
C12_HourBuckets ==
  last.op = "analytics" =>
    LET by_hour == last.report.by_hour
    IN /\ DOMAIN by_hour = 0..23
       /\ \A h \in 0..23 : by_hour[h] = Cardinality(AtHour(Aggregated, h))
       /\ SumTo(by_hour, 23) <= last.report.total_violations

(* Two records aggregated: one at 08:00, one whose date does not parse *)
C12_Witness ==
  /\ last.op = "analytics"
  /\ last.report.total_violations = 2
  /\ last.report.by_hour[8] = 1
  /\ SumTo(last.report.by_hour, 23) = 1
  /\ \E i \in 1..2 : to_datetime(Get(Aggregated[i], "date")).k = "err"

----------------------------------------------------------------------------
(* The ranking specification: uploads that spread records over six         *)
(* locations, so that the list of zones is cut and holds ties.             *)

RankFiles == {"rank_base", "rank_f", "rank_c"}

MaxRankRecords == 7

InitRank == Boot({Missing}, {Missing})

NextRank == Serve(RankFiles, {NoPath}, {NoneV}, {NoneV}, MaxRankRecords)

SpecRank == InitRank /\ [][NextRank]_vars

Locations(data) == {LocLabel(data[i]) : i \in 1..Len(data)}

Listed(zones) == {zones[i].location : i \in 1..Len(zones)}

(* C6: high_risk_zones lists min(5, distinct locations) distinct           *)
(* locations with their counts, the counts never increase along the list,  *)
(* equal counts keep first-encounter order, and no location left out has a *)
(* count above the last one listed.                                        *)
C6_TopFiveRanking ==
  last.op = "analytics" =>
    LET z == last.report.high_risk_zones
        locs == Locations(Aggregated)
        count(loc) == Cardinality(Occurrences(Aggregated, loc))
        first(loc) == Least(Occurrences(Aggregated, loc))
    IN /\ Len(z) = (IF Cardinality(locs) < 5 THEN Cardinality(locs) ELSE 5)
       /\ Cardinality(Listed(z)) = Len(z)
       /\ \A i \in 1..Len(z) :
            /\ z[i].location \in locs
            /\ z[i].count = count(z[i].location)
            /\ z[i].count = CountOf(last.report.by_location, z[i].location)
       /\ \A i, j \in 1..Len(z) :
            i < j =>
              /\ z[i].count >= z[j].count
              /\ (z[i].count = z[j].count => first(z[i].location) < first(z[j].location))
       /\ \A loc \in locs \ Listed(z) : count(loc) <= z[Len(z)].count

(* Six locations: the list is cut, it holds a tie, and its head has count 2 *)
C6_Witness ==
  /\ last.op = "analytics"
  /\ Cardinality(Locations(Aggregated)) = 6
  /\ Len(last.report.high_risk_zones) = 5
  /\ last.report.high_risk_zones[1].count = 2
  /\ last.report.high_risk_zones[2].count = 1
  /\ last.report.high_risk_zones[1].location = <<"F">>

----------------------------------------------------------------------------
(* The recommendation specification: uploads of 14 parking rows, 3         *)
(* speeding rows and 3 signal rows, so that a share of exactly 15% (3 of   *)
(* 20) occurs as well as shares above and below it.                        *)

RecoFiles == {"reco_p14", "reco_s3", "reco_g3"}

MaxRecoRecords == 20

InitReco == Boot({Missing}, {Missing})

NextReco == Serve(RecoFiles, {NoPath}, {NoneV}, {NoneV}, MaxRecoRecords)

SpecReco == InitReco /\ [][NextReco]_vars

(* The aggregated records whose lowercased type label contains the word *)
Mentions(data, word) ==
  Cardinality({i \in 1..Len(data) : Contains(word, lower(TypeLabel(data[i])))})

(* C8: no recommendation when nothing is aggregated; otherwise the         *)
(* speeding advisory iff over_speed / total > 0.15, the signal advisory    *)
(* iff signal_jump / total > 0.15, and one priority advisory naming the    *)
(* first high-risk zone, in that order.                                    *)
C8_Recommendations ==
  last.op = "analytics" =>
    LET r == last.report
        total == r.total_violations
        speed == 100 * r.over_speed > 15 * total
        signal == 100 * r.signal_jump > 15 * total
    IN /\ r.over_speed = Mentions(Aggregated, <<"s", "p", "e", "e", "d">>)
       /\ r.signal_jump = Mentions(Aggregated, <<"s", "i", "g", "n", "a", "l">>)
       /\ (total = 0 => r.recommendations = <<>>)
       /\ (total > 0 =>
             r.recommendations =
               (IF speed THEN <<SpeedAdvice>> ELSE <<>>)
               \o (IF signal THEN <<SignalAdvice>> ELSE <<>>)
               \o <<PriorityAdvice(r.high_risk_zones[1].location)>>)

(* Exactly 15% of the records are speeding, more than 15% are signal: only *)
(* the signal and priority advisories are given.                           *)
C8_Witness ==
  /\ last.op = "analytics"
  /\ last.report.total_violations = 20
  /\ last.report.over_speed = 3
  /\ last.report.signal_jump = 3
  /\ Len(last.report.recommendations) = 1

----------------------------------------------------------------------------
(* The concurrent specification.  The handlers run on the threads of the   *)
(* serving host and share the module-level list `violations`; the code     *)
(* takes no lock, so a thread may be preempted between any two statements. *)
(* Each action below is one thread running from one access of the shared   *)
(* list to the next.  threads[t] is the position of thread t (pc), the     *)
(* request it serves and its local variables.                              *)

Workers == {"w1", "w2"}

MaxConcRecords == 2

Idle ==
  [pc |-> "idle", op |-> "none", path |-> NoPath, clear |-> FALSE, records |-> <<>>,
   total |-> 0, seen |-> <<>>, result |-> NoneV]

Free(t) == threads[t].pc \in {"idle", "done"}

(* A replace load that has cleared the list and not yet extended it *)
MidLoad(th) ==
  \E t \in Workers : th[t].op = "reload" /\ th[t].clear /\ th[t].pc \in {"read", "extend"}

Readers == {"violations", "analytics"}

(* A request that reads the list is being served *)
Reading(th) == \E t \in Workers : th[t].op \in Readers /\ th[t].pc # "done"

(* One step of thread t: its new position and the new list.  stable is the *)
(* history of the complete datasets: the values the list has held, while   *)
(* no load was mid-way, since the latest moment at which no request was    *)
(* reading and no load was mid-way.                                        *)
Step(t, thread, data) ==
  /\ threads' = [threads EXCEPT ![t] = thread]
  /\ violations' = data
  /\ stable' = IF MidLoad(threads') THEN stable
               ELSE IF Reading(threads') THEN stable \cup {data} ELSE {data}
  /\ UNCHANGED <<fs, last>>

(* lines 279-283 and 20-23: the request is read and the path looked up *)
StartReload(t, path, clear) ==
  /\ Free(t)
  /\ Step(t, [Idle EXCEPT !.op = "reload", !.path = path, !.clear = clear,
                          !.pc = IF exists(fs, path) THEN "clear" ELSE "done",
                          !.result = IF exists(fs, path) THEN NoneV ELSE FALSE],
           violations)

(* lines 26-27 *)
LoadClear(t) ==
  /\ threads[t].pc = "clear"
  /\ Step(t, [threads[t] EXCEPT !.pc = "read"], AfterClear(violations, threads[t].clear))

(* lines 29-72: the file is read and its rows normalised into `records` *)
LoadRead(t) ==
  LET file == Catalog[fs[threads[t].path]]
  IN /\ threads[t].pc = "read"
     /\ Step(t, IF ReadOk(threads[t].path, file)
                THEN [threads[t] EXCEPT !.pc = "extend", !.records = RecordsOf(file)]
                ELSE [threads[t] EXCEPT !.pc = "done", !.result = FALSE],
              violations)

(* lines 74-76 *)
LoadExtend(t, cap) ==
  /\ threads[t].pc = "extend"
  /\ Len(violations) + Len(threads[t].records) <= cap
  /\ Step(t, [threads[t] EXCEPT !.pc = "done", !.result = TRUE],
           Extend(violations, threads[t].records))

(* lines 290-292 (delete_files absent) *)
StartClear(t) ==
  /\ Free(t)
  /\ Step(t, [Idle EXCEPT !.op = "clear", !.pc = "respond"], <<>>)

(* line 302 *)
ClearRespond(t) ==
  /\ threads[t].op = "clear" /\ threads[t].pc = "respond"
  /\ Step(t, [threads[t] EXCEPT !.pc = "done", !.total = Len(violations),
                                !.result = Len(violations)],
           violations)

(* lines 105-107, 113-115: the default dataset is loaded when the list is  *)
(* empty (the thread is not preempted during this load)                    *)
StartRead(t, op) ==
  /\ Free(t)
  /\ Step(t, [Idle EXCEPT !.op = op, !.pc = "ensured"], EnsureData(fs, violations))

(* What thread t responds if it finishes now: the list as it is (line     *)
(* 108), or the report built from total and the records the loop has seen *)
(* (lines 201-244).                                                        *)
Response(t) ==
  IF threads[t].op = "violations" THEN violations
  ELSE Report(threads[t].total, threads[t].seen)

(* line 108: jsonify(violations) *)
ViolationsRespond(t) ==
  /\ threads[t].op = "violations" /\ threads[t].pc = "ensured"
  /\ Step(t, [Idle EXCEPT !.op = "violations", !.pc = "done"], violations)

(* lines 118-153 without date arguments: data_source is the shared list    *)
(* itself and total = len(data_source)                                     *)
AnalyticsTotal(t) ==
  /\ threads[t].op = "analytics" /\ threads[t].pc = "ensured"
  /\ Step(t, [threads[t] EXCEPT !.pc = "loop", !.total = Len(violations)], violations)

(* lines 155-199: the list iterator yields the item at its index while the *)
(* index is inside the list as it is now.  lines 201-244: once the         *)
(* iterator is exhausted, the report is built from total and the records   *)
(* the loop has seen.                                                      *)
AnalyticsNext(t) ==
  LET i == Len(threads[t].seen)
  IN /\ threads[t].pc = "loop"
     /\ Step(t, IF i < Len(violations)
                THEN [threads[t] EXCEPT !.seen = Append(@, violations[i + 1])]
                ELSE [Idle EXCEPT !.op = "analytics", !.pc = "done"],
              violations)

InitConc ==
  /\ fs = [p \in Paths |-> IF p = DatasetXlsx THEN "conc_a"
                            ELSE IF p = DatasetCsv THEN "conc_b" ELSE Missing]
  /\ violations = LoadDefault(fs, <<>>).data
  /\ last = [op |-> "start"]
  /\ threads = [t \in Workers |-> Idle]
  /\ stable = {violations}

NextConc ==
  \E t \in Workers :
    \/ \E path \in {DatasetXlsx, DatasetCsv, NoSuchFile}, clear \in BOOLEAN : StartReload(t, path, clear)
    \/ LoadClear(t)
    \/ LoadRead(t)
    \/ LoadExtend(t, MaxConcRecords)
    \/ StartClear(t)
    \/ ClearRespond(t)
    \/ \E op \in {"violations", "analytics"} : StartRead(t, op)
    \/ ViolationsRespond(t)
    \/ AnalyticsTotal(t)
    \/ AnalyticsNext(t)

SpecConc == InitConc /\ [][NextConc]_vars

Finished(t, op) == threads[t].pc = "done" /\ threads[t].op = op

(* Thread t sends the response of a reading request in this step *)
Responds(t) ==
  /\ threads[t].op \in Readers /\ threads[t].pc # "done"
  /\ threads'[t].pc = "done"

(* What the request gives on the dataset d *)
ResponseOn(op, d) == IF op = "violations" THEN d ELSE Report(Len(d), d)

(* C2: what a reader returns is computed from a complete dataset, one the  *)
(* list held while no load was between its clear and its insert: the       *)
(* snapshot is such a dataset, the report is the report of such a dataset. *)
C2_ReadersSeeCompleteDataset ==
  [][\A t \in Workers :
       Responds(t) => \E d \in stable : Response(t) = ResponseOn(threads[t].op, d)]_vars

(* C3: once two replace loads have both completed successfully, the        *)
(* dataset holds exactly the rows of one of them.                          *)
C3_ReplaceLoadsExclusive ==
  (\A t \in Workers : Finished(t, "reload") /\ threads[t].clear /\ threads[t].result = TRUE)
    => \E t \in Workers : violations = threads[t].records

----------------------------------------------------------------------------
(* The safety specification: single-row uploads that carry accident and    *)
(* casualty counts for 2017 and 2018, or none.                             *)

SafetyFiles == {"safe_1", "safe_2", "safe_3"}

MaxSafetyRecords == 2

InitSafety == Boot({Missing}, {Missing})

NextSafety == Serve(SafetyFiles, {NoPath}, {NoneV}, {NoneV}, MaxSafetyRecords)

SpecSafety == InitSafety /\ [][NextSafety]_vars

(* No aggregated record carries any of the six safety columns *)
NoSafetyField(data) ==
  \A i \in 1..Len(data), j \in 1..Len(SafetyFields) : SafetyFields[j].col \notin DOMAIN data[i]

(* C11: each pct field times its 2017 counter is (2018 - 2017) * 100 when  *)
(* the 2017 counter is not 0, and is 0 when the 2017 counter is 0; when no *)
(* record carries a safety field every counter and every pct field is 0.   *)
C11_PercentChange ==
  last.op = "analytics" =>
    LET s == last.report.safety_stats
    IN /\ \A i \in 1..Len(PctFields) :
            LET f == PctFields[i]
                p == s[f.pct]
            IN /\ p.den > 0
               /\ (s[f.old] # 0 => p.num * s[f.old] = (s[f.new] - s[f.old]) * 100 * p.den)
               /\ (s[f.old] = 0 => p.num = 0)
       /\ (NoSafetyField(Aggregated) =>
             /\ \A k \in SafetyStats : s[k] = 0
             /\ \A i \in 1..Len(PctFields) : s[PctFields[i].pct].num = 0)

(* Accidents go from 3 to 4 (one third more, not a whole percentage) while *)
(* the killed go from 0 to 5                                               *)
C11_Witness ==
  /\ last.op = "analytics"
  /\ last.report.safety_stats["accidents_2017"] = 3
  /\ last.report.safety_stats["accidents_2018"] = 4
  /\ last.report.safety_stats["pct_accidents"] = [num |-> 100, den |-> 3]
  /\ last.report.safety_stats["killed_2017"] = 0
  /\ last.report.safety_stats["killed_2018"] = 5

----------------------------------------------------------------------------
(* The resolver specification: pick_field applied to the rows over three   *)
(* columns, each absent, null (NaN or None) or holding a value, and to     *)
(* the synonym lists of up to MaxVariants of these columns.                *)

PickKeys == {"plate", "Plate", "place"}

PickValues == {NaN, NoneV, Num(1), Str(<<"x">>)}

MaxVariants == 3

PickRows == UNION {[keys -> PickValues] : keys \in SUBSET PickKeys}

PickLists == UNION {[1..n -> PickKeys] : n \in 0..MaxVariants}

InitPick ==
  /\ fs = [p \in Paths |-> Missing]
  /\ violations = <<>>
  /\ last \in {[op |-> "pick_field", row |-> row, variants |-> variants, returned |-> FALSE,
                 value |-> NoneV] : row \in PickRows, variants \in PickLists}
  /\ threads = NoThreads
  /\ stable = {}

(* lines 37-41: the call returns *)
PickField ==
  /\ last.op = "pick_field" /\ ~last.returned
  /\ last' = [last EXCEPT !.returned = TRUE, !.value = pick_field(last.row, last.variants)]
  /\ UNCHANGED <<fs, violations, threads, stable>>

NextPick == PickField

SpecPick == InitPick /\ [][NextPick]_vars

(* The positions of the list whose key is in the row with a value that is  *)
(* neither NaN nor None                                                    *)
Qualifying(row, variants) ==
  {i \in 1..Len(variants) : variants[i] \in DOMAIN row /\ row[variants[i]] \notin {NaN, NoneV}}

(* C13: pick_field returns the value of the first key of the list, in list *)
(* order, that the row holds with a non-null value, whatever the keys      *)
(* after it hold, and None when no key qualifies.                          *)
C13_FirstPresentSynonym ==
  (last.op = "pick_field" /\ last.returned) =>
    LET q == Qualifying(last.row, last.variants)
    IN /\ (q = {} => last.value = NoneV)
       /\ (q # {} => last.value = last.row[last.variants[Least(q)]])
       /\ (q # {} =>
             \A row \in PickRows :
               (\A i \in 1..Least(q) :
                  /\ (last.variants[i] \in DOMAIN row) = (last.variants[i] \in DOMAIN last.row)
                  /\ (last.variants[i] \in DOMAIN row => row[last.variants[i]] = last.row[last.variants[i]]))
                 => pick_field(row, last.variants) = last.value)

(* The first key is absent, the second holds NaN, the third a value *)
C13_Witness ==
  /\ last.op = "pick_field" /\ last.returned
  /\ Len(last.variants) = 3
  /\ last.variants[1] \notin DOMAIN last.row
  /\ last.variants[2] \in DOMAIN last.row /\ last.row[last.variants[2]] = NaN
  /\ last.variants[3] \in DOMAIN last.row /\ last.value = Str(<<"x">>)

----------------------------------------------------------------------------
(* The normaliser specification: the record built (lines 45-72) from the   *)
(* rows over seven columns, each absent, NaN, a padded text or a number.   *)

NormKeys == {"plate", "Type", "place", "date", "Date", "lat", "Remarks"}

NormValues == {NaN, Str(<<" ", "x", " ">>), Num(7)}

NormRows == UNION {[keys -> NormValues] : keys \in SUBSET NormKeys}

InitNorm ==
  /\ fs = [p \in Paths |-> Missing]
  /\ violations = <<>>
  /\ last \in {[op |-> "normalize", row |-> row, built |-> FALSE, record |-> <<>>] :
                 row \in NormRows}
  /\ threads = NoThreads
  /\ stable = {}

(* lines 45-72: the record of the row is built *)
NormalizeRow ==
  /\ last.op = "normalize" /\ ~last.built
  /\ last' = [last EXCEPT !.built = TRUE, !.record = Normalize(last.row)]
  /\ UNCHANGED <<fs, violations, threads, stable>>

NextNorm == NormalizeRow

SpecNorm == InitNorm /\ [][NextNorm]_vars

(* The synonym list of each canonical string field *)
StringFields ==
  <<[field |-> "vehicle", keys |-> VehicleKeys], [field |-> "type", keys |-> TypeKeys],
    [field |-> "location", keys |-> LocationKeys], [field |-> "date", keys |-> DateKeys]>>

(* C14: each of vehicle, type, location and date of the record is the      *)
(* trimmed string form of what pick_field returns for the field's synonym  *)
(* list, and "" when it returns None.                                      *)
C14_StringFieldsTrimmed ==
  (last.op = "normalize" /\ last.built) =>
    \A i \in 1..Len(StringFields) :
      LET picked == pick_field(last.row, StringFields[i].keys)
      IN last.record[StringFields[i].field] =
           IF picked = NoneV THEN Str(<<>>) ELSE Str(strip(PyStr(picked)))

(* The columns that are synonyms of one of the six canonical fields *)
Synonyms ==
  Range(VehicleKeys) \cup Range(TypeKeys) \cup Range(LocationKeys) \cup Range(DateKeys)
    \cup Range(LatKeys) \cup Range(LonKeys)

(* C15: the keys of the record beyond the six canonical ones are exactly   *)
(* the columns of the row that hold a non-null value and are no synonym of *)
(* a canonical field, each with the value of the row.                      *)
C15_ExtrasAreUnconsumedColumns ==
  (last.op = "normalize" /\ last.built) =>
    LET extras == DOMAIN last.record \ CanonicalKeys
    IN /\ extras = {k \in DOMAIN last.row : last.row[k] \notin {NaN, NoneV} /\ k \notin Synonyms}
       /\ \A k \in extras : last.record[k] = last.row[k]

----------------------------------------------------------------------------
(* The read specification: the default paths hold a file with a row, a     *)
(* file without rows, bytes no reader accepts, or nothing.                 *)

ReadFiles == {"core_ab"}

MaxReadRecords == 2

InitRead == Boot({Missing, "bad", "core_c"}, {Missing, "core_a", "core_empty"})

NextRead == Serve(ReadFiles, {NoPath}, {NoneV}, {NoneV}, MaxReadRecords)

SpecRead == InitRead /\ [][NextRead]_vars

IsRead(req) == req.op \in {"violations", "analytics"}

(* The path holds a file its reader accepts *)
Loads(files, p) == exists(files, p) /\ ReadOk(p, Catalog[files[p]])

(* The records of dataset.xlsx when it loads, else of dataset.csv when it  *)
(* loads, else none                                                        *)
DefaultRecords(files) ==
  IF Loads(files, DatasetXlsx) THEN RecordsOf(Catalog[files[DatasetXlsx]])
  ELSE IF Loads(files, DatasetCsv) THEN RecordsOf(Catalog[files[DatasetCsv]])
  ELSE <<>>

(* What the read serves is the dataset it leaves *)
Serves(req, data) ==
  IF req.op = "violations" THEN req.total = Len(data)
  ELSE req.kept = All(data) /\ req.report.total_violations = Len(data)

(* C19 as claimed: a read keeps a non-empty dataset; on an empty one it    *)
(* loads dataset.xlsx, then dataset.csv if that fails, and serves the      *)
(* result, which is empty only when neither default source loads.          *)
C19_EmptyOnlyWithoutDefault ==
  [][IsRead(last') =>
       /\ (violations # <<>> => violations' = violations)
       /\ (violations = <<>> => violations' = DefaultRecords(fs))
       /\ Serves(last', violations')
       /\ (violations' = <<>> => ~Loads(fs, DatasetXlsx) /\ ~Loads(fs, DatasetCsv))]_vars

(* C19: a read keeps a non-empty dataset; on an empty one it loads         *)
(* dataset.xlsx, then dataset.csv if that fails, and serves the result,    *)
(* which is empty when neither default source loads or the one that loads  *)
(* has no rows.                                                            *)
C19_ReadLoadsDefaultWhenEmpty ==
  [][IsRead(last') =>
       /\ (violations # <<>> => violations' = violations)
       /\ (violations = <<>> => violations' = DefaultRecords(fs))
       /\ Serves(last', violations')
       /\ (violations' = <<>> =>
             \/ ~Loads(fs, DatasetXlsx) /\ ~Loads(fs, DatasetCsv)
             \/ Loads(fs, DatasetXlsx) /\ RowsAt(fs, DatasetXlsx) = 0
             \/ ~Loads(fs, DatasetXlsx) /\ Loads(fs, DatasetCsv) /\ RowsAt(fs, DatasetCsv) = 0)]_vars

(* A read has served the empty dataset although dataset.csv loads: the     *)
(* file has no rows                                                        *)
C19_Witness ==
  /\ IsRead(last) /\ violations = <<>>
  /\ ~Loads(fs, DatasetXlsx) /\ Loads(fs, DatasetCsv)

====
